---- MODULE Spec2Model ----
(***************************************************************************)
(* Peer negotiation and signaling orchestration of the P2P chat client:    *)
(* the ChatPage component (initializeChat), WebRTCService,                  *)
(* SignalingService, the localStorage helpers and the relay controller.     *)
(*                                                                         *)
(* Sequential code is modelled functionally: the value of all variables is *)
(* gathered in the record World, every procedure of the source is an       *)
(* operator from a world record to a world record, and an action commits   *)
(* the world its handler returns.  A handler that suspends on an await is  *)
(* split at the await: the pending primitive operation is an entry of      *)
(* tasks, and TaskDone runs the continuation.                              *)
(***************************************************************************)
EXTENDS Integers, Sequences, FiniteSets, TLC

\* ------------------------------------------------------------------ bounds
MaxTime == 1        \* Date.now() ranges over 0..MaxTime
MaxCand == 1        \* ICE candidates a client's transport instances emit
MaxFaults == 1      \* spontaneous rejections of addIceCandidate
MaxStored == 2      \* messages persisted by an earlier page load
MaxLate == 1        \* envelopes received over a link that is closing
MaxLoss == 7        \* transport-loss events (ICE loss, channel close)
MaxTeardownLoss == 2 \* transport-loss events before a teardown
MaxMsgs == 2        \* chat messages sent
MaxPeerMsgs == 3     \* envelopes an arbitrary negotiating peer publishes
MaxSignals == 6      \* answers a reconnecting peer publishes
MaxEndMsgs == 2      \* envelopes a peer that may end the session publishes
MaxNegMsgs == 3      \* descriptions and candidates a peer publishes
MaxRetries == 4      \* connection attempts of the STOMP client that fail
MaxNegLoss == 1      \* transport losses while the peer negotiates

\* ------------------------------------------------------------- parameters
Clients == {"A", "B", "C"}
Peers == {"A", "B"}
Room == "r1"
Rooms == {"r1", "r2"}
RandomValues == {3, 7}          \* Math.random() in tenths: 0.3, 0.7
Contents == {"hi", "yo"}         \* texts of chat messages
Types == {"offer", "answer", "ice-candidate", "initiator-selection",
          "end-session", "room-full", "keep-alive"}

\* WebRTCService.maxReconnectAttempts
maxReconnectAttempts == 5

\* The inactivity window of getRoomParticipantsCount, in milliseconds.
oneHour == 3600000

\* Values of Date.now() around that window, for the membership tracker.
Instants == {0, 1, oneHour, oneHour + 1, oneHour + 2}

\* ----------------------------------------------------------------- state
VARIABLES
  \* ChatPage component (one effect run per mount)
  phase, randomValue, actualInitiator, closureStatus, fallbackTimer,
  connectionStatus, isRoomFull, sessionEnded, endedByPeer, effectEnded,
  observed,
  \* WebRTCService
  peerConnection, isInitiator, isSessionActive, pendingIceCandidates,
  remoteDescriptionSet, storedMessages, tasks, pcSeq, candSeq, iceLog,
  dataChannel, closeEvent, isReconnecting, reconnectAttempts, reconnectTimers,
  chanq,
  \* SignalingService
  connected, stompClient, sigUser, messageCallback, connectWait,
  \* relay (SignalingController) and the links to it
  outq, subscribed, late,
  \* localStorage, per browser
  session, participants, messages, sharedStore,
  \* environment
  now, faults, losses, msgSeq,
  \* history
  sent, participantCount, localToken, electionResult, notified, heardPeer,
  injected, lastCall, attemptsStarted, exhausted, endHandled, endCalls,
  openedAtAttempt, handled, selfDelivered, rejected, resetPc, unclosed,
  staleResume,
  \* the relay as the environment presents it, and the failed socket attempts
  relay, connectErrors,
  \* what held when the relay link was last deactivated and when
  \* onSessionEnded was last called
  endTrace

vars == << phase, randomValue, actualInitiator, closureStatus, fallbackTimer,
           connectionStatus, isRoomFull, sessionEnded, endedByPeer,
           peerConnection, isInitiator, isSessionActive, pendingIceCandidates,
           remoteDescriptionSet, storedMessages, tasks, pcSeq, candSeq, iceLog,
           connected, stompClient, sigUser, messageCallback, connectWait,
           outq, subscribed,
           session, participants, messages, sharedStore,
           now, faults,
           sent, participantCount, localToken, electionResult, notified,
           heardPeer, injected, lastCall,
           effectEnded, observed, dataChannel, closeEvent, isReconnecting,
           reconnectAttempts, reconnectTimers, chanq, losses, msgSeq,
           attemptsStarted, exhausted, late, endHandled, endCalls,
           openedAtAttempt, handled, selfDelivered, rejected, resetPc,
           unclosed, staleResume, relay, connectErrors, endTrace >>

World ==
  [ phase |-> phase, randomValue |-> randomValue,
    actualInitiator |-> actualInitiator, closureStatus |-> closureStatus,
    fallbackTimer |-> fallbackTimer, connectionStatus |-> connectionStatus,
    isRoomFull |-> isRoomFull, sessionEnded |-> sessionEnded,
    endedByPeer |-> endedByPeer,
    peerConnection |-> peerConnection, isInitiator |-> isInitiator,
    isSessionActive |-> isSessionActive,
    pendingIceCandidates |-> pendingIceCandidates,
    remoteDescriptionSet |-> remoteDescriptionSet,
    storedMessages |-> storedMessages, tasks |-> tasks, pcSeq |-> pcSeq,
    candSeq |-> candSeq, iceLog |-> iceLog,
    connected |-> connected, stompClient |-> stompClient, sigUser |-> sigUser,
    messageCallback |-> messageCallback, connectWait |-> connectWait,
    outq |-> outq, subscribed |-> subscribed,
    session |-> session, participants |-> participants, messages |-> messages,
    sharedStore |-> sharedStore,
    now |-> now, faults |-> faults,
    sent |-> sent, participantCount |-> participantCount,
    localToken |-> localToken, electionResult |-> electionResult,
    notified |-> notified, heardPeer |-> heardPeer, injected |-> injected,
    lastCall |-> lastCall,
    effectEnded |-> effectEnded, observed |-> observed,
    dataChannel |-> dataChannel, closeEvent |-> closeEvent,
    isReconnecting |-> isReconnecting, reconnectAttempts |-> reconnectAttempts,
    reconnectTimers |-> reconnectTimers, chanq |-> chanq, losses |-> losses,
    msgSeq |-> msgSeq, attemptsStarted |-> attemptsStarted,
    exhausted |-> exhausted, late |-> late, endHandled |-> endHandled,
    endCalls |-> endCalls, openedAtAttempt |-> openedAtAttempt,
    handled |-> handled, selfDelivered |-> selfDelivered,
    rejected |-> rejected, resetPc |-> resetPc, unclosed |-> unclosed,
    staleResume |-> staleResume, relay |-> relay,
    connectErrors |-> connectErrors, endTrace |-> endTrace ]

\* The handler's result becomes the next state; the world is computed once.
Commit(result) ==
  \E W \in {result} :
    /\ phase' = W.phase /\ randomValue' = W.randomValue
    /\ actualInitiator' = W.actualInitiator /\ closureStatus' = W.closureStatus
    /\ fallbackTimer' = W.fallbackTimer /\ connectionStatus' = W.connectionStatus
    /\ isRoomFull' = W.isRoomFull /\ sessionEnded' = W.sessionEnded
    /\ endedByPeer' = W.endedByPeer
    /\ peerConnection' = W.peerConnection /\ isInitiator' = W.isInitiator
    /\ isSessionActive' = W.isSessionActive
    /\ pendingIceCandidates' = W.pendingIceCandidates
    /\ remoteDescriptionSet' = W.remoteDescriptionSet
    /\ storedMessages' = W.storedMessages /\ tasks' = W.tasks
    /\ pcSeq' = W.pcSeq /\ candSeq' = W.candSeq /\ iceLog' = W.iceLog
    /\ connected' = W.connected /\ stompClient' = W.stompClient
    /\ sigUser' = W.sigUser /\ messageCallback' = W.messageCallback
    /\ connectWait' = W.connectWait
    /\ outq' = W.outq /\ subscribed' = W.subscribed
    /\ session' = W.session /\ participants' = W.participants
    /\ messages' = W.messages /\ sharedStore' = W.sharedStore
    /\ now' = W.now /\ faults' = W.faults
    /\ sent' = W.sent /\ participantCount' = W.participantCount
    /\ localToken' = W.localToken /\ electionResult' = W.electionResult
    /\ notified' = W.notified /\ heardPeer' = W.heardPeer
    /\ injected' = W.injected /\ lastCall' = W.lastCall
    /\ effectEnded' = W.effectEnded /\ observed' = W.observed
    /\ dataChannel' = W.dataChannel /\ closeEvent' = W.closeEvent
    /\ isReconnecting' = W.isReconnecting
    /\ reconnectAttempts' = W.reconnectAttempts
    /\ reconnectTimers' = W.reconnectTimers /\ chanq' = W.chanq
    /\ losses' = W.losses /\ msgSeq' = W.msgSeq
    /\ attemptsStarted' = W.attemptsStarted /\ exhausted' = W.exhausted
    /\ late' = W.late /\ endHandled' = W.endHandled /\ endCalls' = W.endCalls
    /\ openedAtAttempt' = W.openedAtAttempt
    /\ handled' = W.handled /\ selfDelivered' = W.selfDelivered
    /\ rejected' = W.rejected /\ resetPc' = W.resetPc /\ unclosed' = W.unclosed
    /\ staleResume' = W.staleResume /\ relay' = W.relay
    /\ connectErrors' = W.connectErrors
    /\ endTrace' = W.endTrace

\* ------------------------------------------------------------ data shapes
NoPc == [id |-> 0, signalingState |-> "none", remote |-> FALSE, local |-> FALSE,
         offerer |-> FALSE]
NoParticipants == [present |-> FALSE, count |-> 0, users |-> << >>, lastUpdated |-> 0]
NoSession == [present |-> FALSE, roomId |-> Room, userId |-> "A", active |-> FALSE, startTime |-> 0]
NoChannel == [state |-> "none", pc |-> 0]
NoToken == [randomValue |-> 0, timestamp |-> 0, set |-> FALSE]
NoCall == [roomId |-> Room, userId |-> "A", joining |-> FALSE, member |-> FALSE,
           before |-> NoParticipants, after |-> NoParticipants, ret |-> 0,
           op |-> "none", at |-> 0]

\* The browser whose localStorage client c reads and writes: tabs of one
\* browser share it, separate browsers do not.
Browser(W, c) == IF W.sharedStore THEN "A" ELSE c

Includes(s, x) == \E i \in 1..Len(s) : s[i] = x

RECURSIVE Without(_, _)
Without(s, x) ==
  IF s = << >> THEN << >>
  ELSE IF Head(s) = x THEN Without(Tail(s), x)
       ELSE << Head(s) >> \o Without(Tail(s), x)

\* A frame on a client's link to the relay, and a relayed envelope.
Envelope(type, senderId, content) ==
  [type |-> type, content |-> content, roomId |-> Room, senderId |-> senderId]
SubscribeFrame == Envelope("SUBSCRIBE", "A", << 0, 0 >>)

\* ------------------------------------------------------------- storage.ts
saveSession(W, c, roomId, userId) ==
  [W EXCEPT !.session[Browser(W, c)] =
     [present |-> TRUE, roomId |-> roomId, userId |-> userId,
      active |-> TRUE, startTime |-> W.now]]

getSession(W, c) == W.session[Browser(W, c)]

clearRoomParticipants(W, c, roomId) ==
  [W EXCEPT !.participants[Browser(W, c)][roomId] = NoParticipants]

storage_endSession(W, c) ==
  LET s == getSession(W, c) IN
  IF s.present
  THEN clearRoomParticipants(
         [W EXCEPT !.session[Browser(W, c)].active = FALSE], c, s.roomId)
  ELSE W

clearSession(W, c) == [W EXCEPT !.session[Browser(W, c)] = NoSession]

saveMessages(W, c, roomId, list) ==
  [W EXCEPT !.messages[Browser(W, c)][roomId] = list]

getMessages(W, c, roomId) == W.messages[Browser(W, c)][roomId]

clearMessages(W, c, roomId) ==
  [W EXCEPT !.messages[Browser(W, c)][roomId] = << >>]

\* A faulty variant of UpdatedParticipants: a join counts the user without
\* looking whether the user is already listed.
UpdatedParticipants_Uncounted(data, userId, joining, t) ==
  LET p0 == IF data.present THEN data
            ELSE [present |-> TRUE, count |-> 0, users |-> << >>, lastUpdated |-> t]
      p1 == IF joining
            THEN [p0 EXCEPT !.count = @ + 1, !.users = Append(@, userId)]
            ELSE LET kept == Without(p0.users, userId)
                 IN  [p0 EXCEPT !.users = kept, !.count = Len(kept)]
  IN [p1 EXCEPT !.lastUpdated = t]

\* A faulty variant of UpdatedParticipants: a leave takes one off the count
\* without looking whether the user is listed.
UpdatedParticipants_Decrement(data, userId, joining, t) ==
  LET p0 == IF data.present THEN data
            ELSE [present |-> TRUE, count |-> 0, users |-> << >>, lastUpdated |-> t]
      p1 == IF joining
            THEN IF ~Includes(p0.users, userId)
                 THEN [p0 EXCEPT !.count = @ + 1, !.users = Append(@, userId)]
                 ELSE p0
            ELSE [p0 EXCEPT !.users = Without(p0.users, userId),
                            !.count = IF @ > 0 THEN @ - 1 ELSE 0]
  IN [p1 EXCEPT !.lastUpdated = t]

\* The record updateRoomParticipants writes back for (record read, userId,
\* joining) at time t.
UpdatedParticipants(data, userId, joining, t) ==
  LET p0 == IF data.present THEN data
            ELSE [present |-> TRUE, count |-> 0, users |-> << >>, lastUpdated |-> t]
      p1 == IF joining
            THEN IF ~Includes(p0.users, userId)
                 THEN [p0 EXCEPT !.count = @ + 1, !.users = Append(@, userId)]
                 ELSE p0
            ELSE LET kept == Without(p0.users, userId)
                 IN  [p0 EXCEPT !.users = kept, !.count = Len(kept)]
  IN [p1 EXCEPT !.lastUpdated = t]

updateRoomParticipants(W, c, roomId, userId, joining) ==
  LET b == Browser(W, c)
      data == W.participants[b][roomId]
      p == UpdatedParticipants(data, userId, joining, W.now)
  IN [W EXCEPT !.participants[b][roomId] = p]

\* getRoomParticipantsCount: the world after the call (w) and the count it
\* returns (ret).  A record last updated more than an hour ago is removed.
getRoomParticipantsCount(W, c, roomId) ==
  LET b == Browser(W, c)
      data == W.participants[b][roomId]
      oneHourAgo == W.now - oneHour
  IN IF ~data.present THEN [w |-> W, ret |-> 0]
     ELSE IF data.lastUpdated < oneHourAgo
          THEN [w |-> clearRoomParticipants(W, c, roomId), ret |-> 0]
          ELSE [w |-> W, ret |-> data.count]

\* The value updateRoomParticipants returned: participants.count as written.
ReturnedCount(W, c, roomId) == W.participants[Browser(W, c)][roomId].count

\* ----------------------------------------------------------- signaling.ts
isConnected(W, c) == W.connected[c] /\ W.stompClient[c]

sendSignalMessage(W, c, type, content) ==
  IF ~W.connected[c] \/ ~W.stompClient[c] \/ ~W.sigUser[c]
  THEN W
  ELSE [W EXCEPT !.outq[c] = Append(@, Envelope(type, c, content)),
                 !.sent[c] = @ \cup {type}]

sendKeepAlive(W, c) ==
  LET s == getSession(W, c) IN
  IF s.present /\ s.active /\ W.connected[c] /\ W.sigUser[c]
  THEN sendSignalMessage(W, c, "keep-alive", << W.now, 0 >>)
  ELSE W

signaling_endSession(W, c) ==
  IF W.connected[c] /\ W.sigUser[c]
  THEN sendSignalMessage(W, c, "end-session", << W.now, 0 >>)
  ELSE W

RECURSIVE NoSubscribe(_)
NoSubscribe(q) ==
  IF q = << >> THEN << >>
  ELSE IF Head(q).type = "SUBSCRIBE" THEN NoSubscribe(Tail(q))
       ELSE << Head(q) >> \o NoSubscribe(Tail(q))

\* deactivate() starts closing the link: frames already written reach the
\* relay, a pending connect never completes, and the subscription callback
\* still runs for envelopes that arrive before the link is closed.
signaling_disconnect(W, c) ==
  LET W1 == IF W.sigUser[c]
            THEN updateRoomParticipants(W, c, Room, c, FALSE)
            ELSE W
  IN IF W1.stompClient[c]
     THEN [W1 EXCEPT !.connected[c] = FALSE, !.sigUser[c] = FALSE,
                     !.outq[c] = NoSubscribe(@), !.connectWait[c] = {},
                     !.endTrace[c].publishedAtDisconnect =
                        /\ W1.outq[c] # << >>
                        /\ W1.outq[c][Len(W1.outq[c])].type = "end-session"]
     ELSE W1

\* connect() up to stompClient.activate(); "who" is the caller waiting on the
\* promise.  An already connected service resolves at once (done = TRUE).
signaling_connect(W, c, who) ==
  IF W.connected[c]
  THEN [w |-> W, done |-> TRUE]
  ELSE [w |-> [W EXCEPT !.sigUser[c] = TRUE, !.stompClient[c] = TRUE,
                        !.connectWait[c] = @ \cup {who}],
        done |-> FALSE]

\* -------------------------------------------- transport-channel primitive
\* Whether RTCPeerConnection pc accepts operation op.  A remote offer on an
\* instance that holds a local offer is rolled back implicitly or rejected,
\* depending on the build (rollback).
PrimitiveAccepts(pc, op, rollback) ==
  CASE op = "createOffer"     -> TRUE
    [] op = "setLocalOffer"   -> pc.signalingState \in {"stable", "have-local-offer"}
    [] op = "setRemoteOffer"  -> \/ pc.signalingState \in {"stable", "have-remote-offer"}
                                 \/ pc.signalingState = "have-local-offer" /\ rollback
    [] op = "createAnswer"    -> pc.signalingState = "have-remote-offer"
    [] op = "setLocalAnswer"  -> pc.signalingState = "have-remote-offer"
    [] op = "setRemoteAnswer" -> pc.signalingState = "have-local-offer"

PrimitiveApply(pc, op) ==
  CASE op = "setLocalOffer"   -> [pc EXCEPT !.signalingState = "have-local-offer", !.local = TRUE,
                                           !.offerer = TRUE]
    [] op = "setRemoteOffer"  -> [pc EXCEPT !.signalingState = "have-remote-offer", !.remote = TRUE,
                                           !.offerer = FALSE,
                                           !.local = IF pc.signalingState = "have-local-offer"
                                                     THEN FALSE ELSE @]
    [] op = "setLocalAnswer"  -> [pc EXCEPT !.signalingState = "stable", !.local = TRUE]
    [] op = "setRemoteAnswer" -> [pc EXCEPT !.signalingState = "stable", !.remote = TRUE]
    [] OTHER -> pc

\* addIceCandidate(cand) on the current instance: rejected when the instance
\* has no remote description, or spontaneously (fault).
addIceCandidate(W, c, cand, fault) ==
  LET ok == W.peerConnection[c].remote /\ ~fault IN
  [W EXCEPT !.iceLog[c] = Append(@, [cand |-> cand, pc |-> W.peerConnection[c].id, ok |-> ok]),
            !.faults = IF fault THEN @ + 1 ELSE @]

\* --------------------------------------------------------------- webrtc.ts
RECURSIVE NotOn(_, _)
NotOn(ts, id) ==
  IF ts = << >> THEN << >>
  ELSE IF Head(ts).pc = id THEN NotOn(Tail(ts), id)
       ELSE << Head(ts) >> \o NotOn(Tail(ts), id)

\* this.peerConnection.close(); this.peerConnection = null.  Operations
\* pending on a closed instance never settle.
closePeerConnection(W, c) ==
  IF W.peerConnection[c].id = 0 THEN W
  ELSE LET mine == /\ W.dataChannel[c].pc = W.peerConnection[c].id
                   /\ W.dataChannel[c].state \in {"connecting", "open"}
       IN [W EXCEPT !.tasks[c] = NotOn(@, W.peerConnection[c].id),
                    !.peerConnection[c] = NoPc,
                    !.unclosed[c] = @ - 1,
                    !.dataChannel[c].state = IF mine THEN "closed" ELSE @,
                    !.chanq[c] = IF mine THEN << >> ELSE @,
                    !.closeEvent[c] = @ \/ mine]

createPeerConnection(W, c) ==
  [W EXCEPT !.pcSeq[c] = @ + 1,
            !.unclosed[c] = @ + 1,
            !.peerConnection[c] = [id |-> W.pcSeq[c] + 1, signalingState |-> "stable",
                                   remote |-> FALSE, local |-> FALSE,
                                   offerer |-> FALSE]]

createPeerConnectionAsReceiver(W, c) ==
  createPeerConnection([W EXCEPT !.isInitiator[c] = FALSE], c)

setupDataChannel(W, c) ==
  IF W.peerConnection[c].id = 0 THEN W
  ELSE [W EXCEPT !.dataChannel[c] = [state |-> "connecting", pc |-> W.peerConnection[c].id]]

\* What the catch block around operation op does.
Catch(W, c, op) ==
  IF op \in {"createOffer", "setLocalOffer"} THEN W
  ELSE [W EXCEPT !.remoteDescriptionSet[c] = FALSE]

\* Call an asynchronous primitive operation on this.peerConnection and await it.
Await(W, c, op) ==
  IF W.peerConnection[c].id = 0 THEN Catch(W, c, op)
  ELSE [W EXCEPT !.tasks[c] = Append(@, [op |-> op, pc |-> W.peerConnection[c].id])]

createPeerConnectionAsInitiator(W, c) ==
  LET W1 == closePeerConnection(W, c)
      W2 == [W1 EXCEPT !.isInitiator[c] = TRUE, !.remoteDescriptionSet[c] = FALSE,
                       !.pendingIceCandidates[c] = << >>]
      W3 == setupDataChannel(createPeerConnection(W2, c), c)
  IN IF ~isConnected(W3, c)
     THEN LET r == signaling_connect(W3, c, "initiator")
          IN  IF r.done THEN Await(r.w, c, "createOffer") ELSE r.w
     ELSE Await(W3, c, "createOffer")

cleanup(W, c) ==
  LET W1 == [W EXCEPT !.remoteDescriptionSet[c] = FALSE,
                      !.pendingIceCandidates[c] = << >>,
                      !.storedMessages[c] = << >>,
                      !.reconnectAttempts[c] = 0,
                      !.isReconnecting[c] = FALSE]
      W2 == [W1 EXCEPT !.closeEvent[c] =
                          @ \/ W1.dataChannel[c].state \in {"connecting", "open"},
                       !.chanq[c] = << >>,
                       !.dataChannel[c] = NoChannel]
  IN signaling_disconnect(closePeerConnection(W2, c), c)

\* callbacks.onChannelStatusChange of the chat page.
onChannelStatusChange(W, c, status) ==
  [W EXCEPT !.connectionStatus[c] = status]

\* A faulty variant of handleDisconnection: the attempt counter is not
\* compared with the maximum.
handleDisconnection_NoLimit(W, c) ==
  IF ~W.isSessionActive[c] THEN W
  ELSE LET W1 == [W EXCEPT !.reconnectAttempts[c] = @ + 1,
                           !.attemptsStarted[c] = @ + 1]
       IN [closePeerConnection(W1, c) EXCEPT
             !.reconnectTimers[c] = Append(@, [role |-> W.isInitiator[c]])]

\* handleDisconnection: one more attempt after reconnectionDelay, or give up.
\* The timer holds no reference; reconnectTimers records the role at the loss.
handleDisconnection(W, c) ==
  IF ~W.isSessionActive[c] THEN W
  ELSE IF W.reconnectAttempts[c] < maxReconnectAttempts
  THEN LET W1 == [W EXCEPT !.reconnectAttempts[c] = @ + 1,
                           !.attemptsStarted[c] = @ + 1]
       IN [closePeerConnection(W1, c) EXCEPT
             !.reconnectTimers[c] = Append(@, [role |-> W.isInitiator[c]])]
  ELSE onChannelStatusChange([W EXCEPT !.isReconnecting[c] = FALSE,
                                       !.exhausted[c] = TRUE], c, "closed")

attemptReconnection(W, c) ==
  IF W.isReconnecting[c] \/ ~W.isSessionActive[c] THEN W
  ELSE handleDisconnection([W EXCEPT !.isReconnecting[c] = TRUE,
                                     !.reconnectAttempts[c] = 0], c)

\* The callback handleDisconnection passes to setTimeout.
reconnectTimeout(W, c) ==
  IF W.isInitiator[c] THEN createPeerConnectionAsInitiator(W, c)
  ELSE createPeerConnectionAsReceiver(W, c)

\* A faulty variant of dataChannel.onopen: the attempt counter is kept.
dataChannel_onopen_KeepCount(W, c) ==
  onChannelStatusChange([W EXCEPT !.isReconnecting[c] = FALSE,
                                  !.attemptsStarted[c] = 0,
                                  !.openedAtAttempt[c] = W.reconnectAttempts[c]],
                        c, "open")

dataChannel_onopen(W, c) ==
  onChannelStatusChange([W EXCEPT !.reconnectAttempts[c] = 0,
                                  !.isReconnecting[c] = FALSE,
                                  !.attemptsStarted[c] = 0,
                                  !.openedAtAttempt[c] = W.reconnectAttempts[c]],
                        c, "open")

dataChannel_onclose(W, c) ==
  LET W1 == onChannelStatusChange(W, c, "closed") IN
  IF ~W1.isReconnecting[c] /\ W1.isSessionActive[c]
  THEN attemptReconnection(W1, c)
  ELSE W1

persistMessages(W, c) == saveMessages(W, c, Room, W.storedMessages[c])

\* callbacks.onMessageReceived, as the service calls it.
onMessageReceived(W, c, messageEvent) ==
  [W EXCEPT !.observed[c] = Append(@, messageEvent)]

\* A faulty variant of sendMessage: the state of the data channel is not
\* looked at.
sendMessage_Unguarded(W, c, d, message) ==
  LET messageEvent == [data |-> message, senderId |-> c, isSelf |-> TRUE,
                       timestamp |-> W.now]
      dataToSend == [content |-> message, senderId |-> c,
                     timestamp |-> messageEvent.timestamp]
      W1 == [W EXCEPT !.chanq[d] = Append(@, dataToSend)]
      W2 == [W1 EXCEPT !.storedMessages[c] = Append(@, messageEvent)]
  IN onMessageReceived(persistMessages(W2, c), c, messageEvent)

\* A faulty variant of sendMessage: the text also goes out in an envelope.
sendMessage_ViaRelay(W, c, d, message) ==
  IF W.dataChannel[c].state # "open" THEN W
  ELSE LET messageEvent == [data |-> message, senderId |-> c, isSelf |-> TRUE,
                            timestamp |-> W.now]
           dataToSend == [content |-> message, senderId |-> c,
                          timestamp |-> messageEvent.timestamp]
           W1 == [W EXCEPT !.chanq[d] = Append(@, dataToSend)]
           W2 == [W1 EXCEPT !.storedMessages[c] = Append(@, messageEvent)]
           W3 == sendSignalMessage(W2, c, "keep-alive", << message, W.now >>)
       IN onMessageReceived(persistMessages(W3, c), c, messageEvent)

\* sendMessage; d is the remote end of the data channel, and the record put
\* on chanq is what JSON.stringify(dataToSend) carries.
sendMessage(W, c, d, message) ==
  IF W.dataChannel[c].state # "open" THEN W
  ELSE LET messageEvent == [data |-> message, senderId |-> c, isSelf |-> TRUE,
                            timestamp |-> W.now]
           dataToSend == [content |-> message, senderId |-> c,
                          timestamp |-> messageEvent.timestamp]
           W1 == [W EXCEPT !.chanq[d] = Append(@, dataToSend)]
           W2 == [W1 EXCEPT !.storedMessages[c] = Append(@, messageEvent)]
       IN onMessageReceived(persistMessages(W2, c), c, messageEvent)

dataChannel_onmessage(W, c, messageObj) ==
  LET newMessage == [data |-> messageObj.content, senderId |-> messageObj.senderId,
                     isSelf |-> FALSE, timestamp |-> messageObj.timestamp]
      W1 == onMessageReceived(W, c, newMessage)
      W2 == [W1 EXCEPT !.storedMessages[c] = Append(@, newMessage)]
  IN persistMessages(W2, c)

\* peerConnection.ondatachannel.
ondatachannel(W, c) ==
  IF ~W.isInitiator[c]
  THEN [W EXCEPT !.dataChannel[c] = [state |-> "connecting",
                                     pc |-> W.peerConnection[c].id]]
  ELSE W

RECURSIVE AddAll(_, _, _)
AddAll(W, c, cands) ==
  IF cands = << >> THEN W
  ELSE AddAll(addIceCandidate(W, c, Head(cands), FALSE), c, Tail(cands))

processPendingIceCandidates(W, c) ==
  IF W.peerConnection[c].id = 0 \/ ~W.remoteDescriptionSet[c]
       \/ Len(W.pendingIceCandidates[c]) = 0
  THEN W
  ELSE [AddAll(W, c, W.pendingIceCandidates[c]) EXCEPT !.pendingIceCandidates[c] = << >>]

loadStoredMessages(W, c) ==
  LET ms == getMessages(W, c, Room) IN
  IF Len(ms) > 0 THEN [W EXCEPT !.storedMessages[c] = ms] ELSE W

\* Callbacks the ChatPage passes to initialize.
onSessionEnded(W, c, wasEndedByPeer) ==
  [W EXCEPT !.sessionEnded[c] = TRUE, !.endedByPeer[c] = wasEndedByPeer,
            !.endTrace[c].clearedAtNotify =
               /\ W.session[Browser(W, c)] = NoSession
               /\ W.messages[Browser(W, c)][Room] = << >>
               /\ W.participants[Browser(W, c)][Room] = NoParticipants,
            !.notified[c] = @ \cup {IF wasEndedByPeer THEN "endedByPeer" ELSE "endedBySelf"}]

onRoomFull(W, c) ==
  [W EXCEPT !.isRoomFull[c] = TRUE, !.notified[c] = @ \cup {"roomFull"}]

\* A faulty variant of the end-session branch: the persisted messages stay.
handleEndSessionMessage_KeepMessages(W, c) ==
  LET W1 == [W EXCEPT !.isSessionActive[c] = FALSE]
      W2 == clearRoomParticipants(W1, c, Room)
      W3 == clearSession(W2, c)
      W4 == onSessionEnded(W3, c, TRUE)
  IN cleanup(W4, c)

\* The end-session branch of handleSignalingMessage.
handleEndSessionMessage(W, c) ==
  LET W1 == [W EXCEPT !.isSessionActive[c] = FALSE]
      W2 == clearRoomParticipants(clearMessages(W1, c, Room), c, Room)
      W3 == clearSession(W2, c)
      W4 == onSessionEnded(W3, c, TRUE)
  IN cleanup(W4, c)

\* The offer branch up to its first await.
handleOfferMessage(W, c) ==
  LET W1 == IF W.peerConnection[c].signalingState # "stable"
            THEN LET R == createPeerConnectionAsReceiver(closePeerConnection(W, c), c)
                 IN  [R EXCEPT !.remoteDescriptionSet[c] = FALSE,
                               !.pendingIceCandidates[c] = << >>,
                               !.resetPc[c] = R.peerConnection[c].id]
            ELSE W
  IN Await(W1, c, "setRemoteOffer")

\* A faulty variant of the answer branch: the answer is dropped.
handleAnswerMessage_Drop(W, c) == W

\* The answer branch up to its first await.
handleAnswerMessage(W, c) ==
  IF W.peerConnection[c].signalingState # "have-local-offer" THEN W
  ELSE Await(W, c, "setRemoteAnswer")

\* The ice-candidate branch.
handleIceCandidateMessage(W, c, cand, fault) ==
  IF ~W.remoteDescriptionSet[c]
  THEN [W EXCEPT !.pendingIceCandidates[c] = Append(@, cand)]
  ELSE LET W1 == addIceCandidate(W, c, cand, fault)
       IN  IF W1.iceLog[c][Len(W1.iceLog[c])].ok THEN W1
           ELSE [W1 EXCEPT !.pendingIceCandidates[c] = Append(@, cand)]

handleSignalingMessage(W, c, msg, fault) ==
  IF msg.type = "end-session"
  THEN handleEndSessionMessage([W EXCEPT !.endHandled[c] = @ + 1], c)
  ELSE IF msg.type = "room-full" THEN onRoomFull(W, c)
  ELSE LET W1 == IF W.peerConnection[c].id = 0
                 THEN createPeerConnectionAsReceiver(W, c) ELSE W
       IN CASE msg.type = "offer" ->
                 handleOfferMessage([W1 EXCEPT !.handled[c].offer = @ + 1], c)
            [] msg.type = "answer" ->
                 handleAnswerMessage([W1 EXCEPT !.handled[c].answer = @ + 1], c)
            [] msg.type = "ice-candidate" ->
                 handleIceCandidateMessage(W1, c, msg.content, fault)
            [] OTHER -> W1

\* The continuation of the handler that awaited task t, once the primitive
\* settles the operation (ok) on the instance it was called on.
Resume(W, c, t, ok) ==
  IF ~ok THEN Catch(W, c, t.op)
  ELSE CASE t.op = "createOffer" -> Await(W, c, "setLocalOffer")
         [] t.op = "setLocalOffer" ->
              sendSignalMessage(W, c, "offer", << W.peerConnection[c].id, 0 >>)
         [] t.op = "setRemoteOffer" ->
              Await(processPendingIceCandidates(
                      [W EXCEPT !.remoteDescriptionSet[c] = TRUE], c), c, "createAnswer")
         [] t.op = "createAnswer" -> Await(W, c, "setLocalAnswer")
         [] t.op = "setLocalAnswer" ->
              IF isConnected(W, c)
              THEN sendSignalMessage(
                     [W EXCEPT !.resetPc[c] = IF @ = W.peerConnection[c].id THEN 0 ELSE @],
                     c, "answer", << W.peerConnection[c].id, 0 >>)
              ELSE W
         [] t.op = "setRemoteAnswer" ->
              processPendingIceCandidates(
                [W EXCEPT !.remoteDescriptionSet[c] = TRUE], c)

\* A faulty variant of endSession: the page is notified first, the relay link
\* is closed next, and the envelope and the persisted state come last.
endSession_NotifyFirst(W, c) ==
  LET W1 == [W EXCEPT !.isSessionActive[c] = FALSE, !.endCalls[c] = @ + 1]
      W2 == cleanup(onSessionEnded(W1, c, FALSE), c)
      W3 == IF isConnected(W1, c)
            THEN [W2 EXCEPT !.outq[c] = Append(@, Envelope("end-session", c, << W.now, 0 >>)),
                            !.sent[c] = @ \cup {"end-session"}]
            ELSE W2
      W4 == storage_endSession(W3, c)
      W5 == clearRoomParticipants(clearMessages(W4, c, Room), c, Room)
  IN clearSession(W5, c)

\* A faulty variant of endSession: no EndSession envelope is published.
endSession_NoPublish(W, c) ==
  LET W1 == [W EXCEPT !.isSessionActive[c] = FALSE, !.endCalls[c] = @ + 1]
      W3 == storage_endSession(W1, c)
      W4 == clearRoomParticipants(clearMessages(W3, c, Room), c, Room)
      W5 == clearSession(W4, c)
      W6 == onSessionEnded(W5, c, FALSE)
  IN cleanup(W6, c)

\* WebRTCService.endSession.
endSession(W, c) ==
  LET W1 == [W EXCEPT !.isSessionActive[c] = FALSE, !.endCalls[c] = @ + 1]
      W2 == IF isConnected(W1, c) THEN signaling_endSession(W1, c) ELSE W1
      W3 == storage_endSession(W2, c)
      W4 == clearRoomParticipants(clearMessages(W3, c, Room), c, Room)
      W5 == clearSession(W4, c)
      W6 == onSessionEnded(W5, c, FALSE)
  IN cleanup(W6, c)

\* A faulty variant of the report of the persisted messages: newest first.
RECURSIVE reportStoredMessages_Reversed(_, _, _)
reportStoredMessages_Reversed(W, c, ms) ==
  IF ms = << >> THEN W
  ELSE onMessageReceived(reportStoredMessages_Reversed(W, c, Tail(ms)), c, Head(ms))

\* The loop of initialize over this.storedMessages: one onMessageReceived call
\* per message, oldest first.
RECURSIVE reportStoredMessages(_, _, _)
reportStoredMessages(W, c, ms) ==
  IF ms = << >> THEN W
  ELSE reportStoredMessages(onMessageReceived(W, c, Head(ms)), c, Tail(ms))

\* WebRTCService.initialize up to "await signalingService.connect".
initialize(W, c) ==
  LET W1 == cleanup([W EXCEPT !.isSessionActive[c] = TRUE,
                              !.attemptsStarted[c] = 0,
                              !.exhausted[c] = FALSE], c)
      W2 == [W1 EXCEPT !.remoteDescriptionSet[c] = FALSE,
                       !.pendingIceCandidates[c] = << >>,
                       !.isInitiator[c] = FALSE]
      W3 == saveSession(W2, c, Room, c)
      W4 == updateRoomParticipants(W3, c, Room, c, TRUE)
      W5 == loadStoredMessages(W4, c)
      W6 == reportStoredMessages(W5, c, W5.storedMessages[c])
  IN signaling_connect(W6, c, "initialize").w

\* The rest of initialize and of initializeChat, after the connect resolved.
initializeChatJoined(W, c) ==
  LET W1 == createPeerConnectionAsReceiver(W, c)
      W2 == sendSignalMessage(W1, c, "initiator-selection",
                              << W1.randomValue[c], W1.now >>)
  IN [W2 EXCEPT !.messageCallback[c] = "chat",
                !.localToken[c] = [randomValue |-> W1.randomValue[c],
                                   timestamp |-> W1.now, set |-> TRUE],
                !.fallbackTimer[c] = TRUE,
                !.phase[c] = "joined"]

\* The election rule of the initiator-selection handler.
BecomesInitiator(ourValue, ourTimestamp, theirValue, theirTimestamp) ==
  \/ ourValue > theirValue
  \/ ourValue = theirValue /\ ourTimestamp < theirTimestamp

\* The handler initializeChat registers with onSignalMessage.
chatSignalHandler(W0, c, msg, fault) ==
  LET W == [W0 EXCEPT !.heardPeer[c] =
              @ \/ msg.type \in {"initiator-selection", "offer", "answer", "ice-candidate"}]
  IN
  IF msg.type = "initiator-selection"
  THEN IF BecomesInitiator(W.randomValue[c], W.now, msg.content[1], msg.content[2])
       THEN createPeerConnectionAsInitiator(
              [W EXCEPT !.actualInitiator[c] = TRUE,
                        !.electionResult[c] = "initiator"], c)
       ELSE createPeerConnectionAsReceiver(
              [W EXCEPT !.actualInitiator[c] = FALSE,
                        !.electionResult[c] = "receiver"], c)
  ELSE handleSignalingMessage(W, c, msg, fault)

\* The fallback timeout of initializeChat.
fallbackTimeout(W, c) ==
  IF ~W.actualInitiator[c] /\ W.closureStatus[c] # "open"
  THEN createPeerConnectionAsInitiator([W EXCEPT !.actualInitiator[c] = TRUE], c)
  ELSE W

\* signalMessage.senderId !== this.userId; userId is null after disconnect.
NotFromSelf(W, c, msg) == ~W.sigUser[c] \/ msg.senderId # c

\* this.messageCallback(signalMessage): the registered handler receives the
\* envelope; selfDelivered records that it was one of the client's own.
messageCallback_call(W, c, msg, fault) ==
  chatSignalHandler([W EXCEPT !.selfDelivered[c] = @ \/ msg.senderId = c],
                    c, msg, fault)

\* A faulty variant of the subscription callback: room-full envelopes are
\* filtered by sender like the others.
subscriptionCallback_FilterRoomFull(W, c, msg, fault) ==
  IF W.messageCallback[c] = "none" THEN W
  ELSE IF NotFromSelf(W, c, msg) THEN messageCallback_call(W, c, msg, fault)
  ELSE W

\* The subscription callback of SignalingService.connect.
subscriptionCallback(W, c, msg, fault) ==
  IF W.messageCallback[c] = "none" THEN W
  ELSE IF msg.type = "end-session"
       THEN IF NotFromSelf(W, c, msg) THEN messageCallback_call(W, c, msg, fault) ELSE W
  ELSE IF msg.type = "room-full" THEN messageCallback_call(W, c, msg, fault)
  ELSE IF NotFromSelf(W, c, msg) THEN messageCallback_call(W, c, msg, fault)
  ELSE W

\* stompClient.onConnect, with the continuations of the callers awaiting it.
onConnect(W, c) ==
  LET W1 == [W EXCEPT !.connected[c] = TRUE, !.connectWait[c] = {},
                      !.subscribed[c] = FALSE,
                      !.outq[c] = Append(@, SubscribeFrame)]
      W2 == updateRoomParticipants(W1, c, Room, c, TRUE)
      n  == ReturnedCount(W2, c, Room)
      W3 == [W2 EXCEPT !.participantCount[c] = n]
      W4 == IF n > 2
            THEN sendSignalMessage(W3, c, "room-full", << 0, 0 >>)
            ELSE sendKeepAlive(W3, c)
      W5 == IF "initialize" \in W.connectWait[c]
            THEN initializeChatJoined(W4, c) ELSE W4
  IN IF "initiator" \in W.connectWait[c]
     THEN Await(W5, c, "createOffer") ELSE W5

\* A faulty variant of onStompError: the page goes on with the election
\* although the connect was rejected.
onStompError_Proceed(W, c) ==
  LET W1 == [W EXCEPT !.connectWait[c] = {}, !.connectErrors[c] = @ + 1]
  IN IF "initialize" \in W.connectWait[c]
     THEN [initializeChatJoined(W1, c) EXCEPT !.connectionStatus[c] = "closed",
                                              !.phase[c] = "failed"]
     ELSE W1

\* stompClient.onStompError: the connect promise is rejected.  initialize
\* passes the rejection on and the catch block of initializeChat reports
\* 'closed'; the catch block of createPeerConnectionAsInitiator only logs.
onStompError(W, c) ==
  LET W1 == [W EXCEPT !.connectWait[c] = {}, !.connectErrors[c] = @ + 1]
  IN IF "initialize" \in W.connectWait[c]
     THEN [W1 EXCEPT !.connectionStatus[c] = "closed", !.phase[c] = "failed"]
     ELSE W1

\* ---------------------------------------------------------------- actions
\* The state after construction, against a relay in condition link.
InitRelay(shared, joiners, stored, link) ==
  /\ phase = [c \in Clients |-> "idle"]
  /\ randomValue = [c \in Clients |-> 0]
  /\ actualInitiator = [c \in Clients |-> FALSE]
  /\ closureStatus = [c \in Clients |-> "connecting"]
  /\ fallbackTimer = [c \in Clients |-> FALSE]
  /\ connectionStatus = [c \in Clients |-> "connecting"]
  /\ isRoomFull = [c \in Clients |-> FALSE]
  /\ sessionEnded = [c \in Clients |-> FALSE]
  /\ endedByPeer = [c \in Clients |-> FALSE]
  /\ peerConnection = [c \in Clients |-> NoPc]
  /\ isInitiator = [c \in Clients |-> FALSE]
  /\ isSessionActive = [c \in Clients |-> FALSE]
  /\ pendingIceCandidates = [c \in Clients |-> << >>]
  /\ remoteDescriptionSet = [c \in Clients |-> FALSE]
  /\ storedMessages = [c \in Clients |-> << >>]
  /\ tasks = [c \in Clients |-> << >>]
  /\ pcSeq = [c \in Clients |-> 0]
  /\ candSeq = [c \in Clients |-> 0]
  /\ iceLog = [c \in Clients |-> << >>]
  /\ connected = [c \in Clients |-> FALSE]
  /\ stompClient = [c \in Clients |-> FALSE]
  /\ sigUser = [c \in Clients |-> FALSE]
  /\ messageCallback = [c \in Clients |-> "none"]
  /\ connectWait = [c \in Clients |-> {}]
  /\ outq = [c \in Clients |-> << >>]
  /\ subscribed = [c \in Clients |-> FALSE]
  /\ session = [b \in Clients |-> NoSession]
  /\ participants = [b \in Clients |-> [r \in Rooms |-> NoParticipants]]
  /\ messages = [b \in Clients |->
                   [r \in Rooms |-> IF r = Room /\ b \in joiners
                                    THEN [i \in 1..stored |->
                                            [data |-> 0, senderId |-> b,
                                             isSelf |-> TRUE, timestamp |-> i - 1]]
                                    ELSE << >>]]
  /\ sharedStore = shared
  /\ now = 0
  /\ faults = 0
  /\ sent = [c \in Clients |-> {}]
  /\ participantCount = [c \in Clients |-> 0]
  /\ localToken = [c \in Clients |-> NoToken]
  /\ electionResult = [c \in Clients |-> "none"]
  /\ notified = [c \in Clients |-> {}]
  /\ heardPeer = [c \in Clients |-> FALSE]
  /\ injected = 0
  /\ lastCall = NoCall
  /\ effectEnded = [c \in Clients |-> FALSE]
  /\ observed = [c \in Clients |-> << >>]
  /\ dataChannel = [c \in Clients |-> NoChannel]
  /\ closeEvent = [c \in Clients |-> FALSE]
  /\ isReconnecting = [c \in Clients |-> FALSE]
  /\ reconnectAttempts = [c \in Clients |-> 0]
  /\ reconnectTimers = [c \in Clients |-> << >>]
  /\ chanq = [c \in Clients |-> << >>]
  /\ losses = 0
  /\ msgSeq = [c \in Clients |-> 0]
  /\ attemptsStarted = [c \in Clients |-> 0]
  /\ exhausted = [c \in Clients |-> FALSE]
  /\ late = [c \in Clients |-> 0]
  /\ endHandled = [c \in Clients |-> 0]
  /\ endCalls = [c \in Clients |-> 0]
  /\ openedAtAttempt = [c \in Clients |-> 0]
  /\ handled = [c \in Clients |-> [offer |-> 0, answer |-> 0]]
  /\ selfDelivered = [c \in Clients |-> FALSE]
  /\ connectErrors = [c \in Clients |-> 0]
  /\ endTrace = [c \in Clients |-> [publishedAtDisconnect |-> FALSE,
                                    clearedAtNotify |-> FALSE]]
  /\ rejected = [c \in Clients |-> FALSE]
  /\ resetPc = [c \in Clients |-> 0]
  /\ unclosed = [c \in Clients |-> 0]
  /\ staleResume = [c \in Clients |-> FALSE]
  /\ relay = link

InitWith(shared, joiners, stored) == InitRelay(shared, joiners, stored, "up")

\* The ChatPage effect: draw the random value and start initializeChat.
Mount(c) ==
  /\ phase[c] = "idle"
  /\ \E rv \in RandomValues :
       Commit(initialize([World EXCEPT !.phase[c] = "connecting",
                                       !.randomValue[c] = rv,
                                       !.actualInitiator[c] = FALSE,
                                       !.effectEnded[c] = sessionEnded[c],
                                       !.closureStatus[c] = connectionStatus[c]], c))

\* The effect runs again when sessionEnded changes: the cleanup of the
\* previous run (whose closure holds the old sessionEnded), then the body.
EffectRerun(c) ==
  /\ phase[c] \in {"connecting", "joined"}
  /\ sessionEnded[c] # effectEnded[c]
  /\ \E rv \in RandomValues :
       LET W1 == [World EXCEPT !.fallbackTimer[c] =
                                  IF phase[c] = "joined" THEN FALSE ELSE @]
           W2 == IF ~effectEnded[c] THEN cleanup(W1, c) ELSE W1
       IN Commit(initialize([W2 EXCEPT !.phase[c] = "connecting",
                                       !.randomValue[c] = rv,
                                       !.actualInitiator[c] = FALSE,
                                       !.effectEnded[c] = sessionEnded[c],
                                       !.closureStatus[c] = connectionStatus[c]], c))

\* The link that deactivate() is closing is closed.
LinkClosed(c) ==
  /\ subscribed[c] /\ ~connected[c]
  /\ Commit([World EXCEPT !.subscribed[c] = FALSE])

\* The relay accepts the client's STOMP connection.
OnConnect(c) ==
  /\ relay = "up"
  /\ connectWait[c] # {}
  /\ Commit(onConnect(World, c))

\* The relay answers the CONNECT frame with an ERROR frame.
StompError(c) ==
  /\ relay = "rejecting"
  /\ connectWait[c] # {}
  /\ Commit(onStompError(World, c))

\* The socket to the relay cannot be opened.  The service registers no
\* handler for it; the STOMP client tries again after reconnectDelay.
WebSocketError(c) ==
  /\ relay = "unreachable"
  /\ stompClient[c] /\ ~connected[c]
  /\ connectErrors[c] < MaxRetries
  /\ Commit([World EXCEPT !.connectErrors[c] = @ + 1])

\* SignalingController.handleSignalMessage: the relay takes the next frame of
\* c's link and forwards an envelope to every subscriber of the room topic,
\* whose subscription callback runs.  An envelope is in flight from its
\* publication to this step.
RECURSIVE Forward(_, _, _, _)
Forward(W, ds, msg, fault) ==
  IF ds = << >> THEN W
  ELSE LET d == Head(ds) IN
       Forward(IF W.subscribed[d] /\ W.connected[d]
               THEN subscriptionCallback(W, d, msg, fault)
               ELSE IF W.subscribed[d] /\ W.late[d] < MaxLate
               THEN subscriptionCallback([W EXCEPT !.late[d] = @ + 1], d, msg, fault)
               ELSE W,
               Tail(ds), msg, fault)

Relay(c) ==
  /\ outq[c] # << >>
  /\ LET f == Head(outq[c])
         W1 == [World EXCEPT !.outq[c] = Tail(@)]
     IN IF f.type = "SUBSCRIBE"
        THEN Commit([W1 EXCEPT !.subscribed[c] = TRUE])
        ELSE \E fault \in BOOLEAN :
               /\ fault => faults < MaxFaults /\ f.type = "ice-candidate"
               /\ Commit(Forward(W1, << "A", "B", "C" >>, f, fault))

\* The primitive settles the oldest operation pending on one instance.
TaskDone(c) ==
  \E i \in 1..Len(tasks[c]) :
    LET t == tasks[c][i]
        pc == peerConnection[c]
        current == t.pc = pc.id
    IN /\ \A j \in 1..(i - 1) : tasks[c][j].pc # t.pc
       /\ \E rollback \in BOOLEAN :
            /\ rollback => /\ current /\ t.op = "setRemoteOffer"
                           /\ pc.signalingState = "have-local-offer"
            /\ LET ok == IF current THEN PrimitiveAccepts(pc, t.op, rollback) ELSE TRUE
                   rest == [j \in 1..(Len(tasks[c]) - 1) |->
                              IF j < i THEN tasks[c][j] ELSE tasks[c][j + 1]]
                   W1 == [World EXCEPT !.tasks[c] = rest,
                                       !.rejected[c] = @ \/ ~ok,
                                       !.staleResume[c] = @ \/ ~current,
                                       !.peerConnection[c] =
                                          IF current /\ ok THEN PrimitiveApply(pc, t.op) ELSE @]
               IN Commit(Resume(W1, c, t, ok))

\* The 3000 ms fallback timeout of initializeChat fires.
FallbackTimer(c) ==
  /\ fallbackTimer[c]
  /\ Commit(fallbackTimeout([World EXCEPT !.fallbackTimer[c] = FALSE], c))

\* onicecandidate of the current instance.
IceCandidateEvent(c) ==
  /\ peerConnection[c].id # 0
  /\ peerConnection[c].local
  /\ candSeq[c] < MaxCand
  /\ Commit(sendSignalMessage([World EXCEPT !.candSeq[c] = @ + 1], c, "ice-candidate",
                              << candSeq[c] + 1, peerConnection[c].id >>))

\* Whether the current transport instance has both descriptions applied.
Negotiated(c) ==
  /\ peerConnection[c].id # 0
  /\ peerConnection[c].local /\ peerConnection[c].remote
  /\ peerConnection[c].signalingState = "stable"

\* The ICE state of the current instance becomes disconnected or failed.
IceLossUpTo(c, max) ==
  /\ Negotiated(c)
  /\ losses < max
  /\ Commit(handleDisconnection([World EXCEPT !.losses = @ + 1], c))

IceLoss(c) == IceLossUpTo(c, MaxLoss)

\* The oldest reconnection timer expires.
ReconnectTimer(c) ==
  /\ reconnectTimers[c] # << >>
  /\ Commit(reconnectTimeout([World EXCEPT !.reconnectTimers[c] = Tail(@)], c))

\* The peer's data channel is announced on the current instance.
DataChannelEvent(c) ==
  /\ Negotiated(c)
  /\ dataChannel[c].pc # peerConnection[c].id
  /\ Commit(ondatachannel(World, c))

\* The data channel of the current instance opens.
DataChannelOpen(c) ==
  /\ Negotiated(c)
  /\ dataChannel[c].pc = peerConnection[c].id
  /\ dataChannel[c].state = "connecting"
  /\ Commit(dataChannel_onopen([World EXCEPT !.dataChannel[c].state = "open"], c))

\* A close event of a data channel: of one that was closed with its
\* instance or by cleanup, or of the open one when the peer goes away.
DataChannelCloseUpTo(c, max) ==
  \/ /\ closeEvent[c]
     /\ Commit(dataChannel_onclose([World EXCEPT !.closeEvent[c] = FALSE], c))
  \/ /\ dataChannel[c].state = "open"
     /\ losses < max
     /\ Commit(dataChannel_onclose([World EXCEPT !.dataChannel[c].state = "closed",
                                                 !.chanq[c] = << >>,
                                                 !.losses = @ + 1], c))

DataChannelClose(c) == DataChannelCloseUpTo(c, MaxLoss)

\* The other participant of the room.
Other(c) == CHOOSE d \in Peers : d # c

\* The data channel between two participants opens at c: both ends hold
\* negotiated instances.
DataChannelOpenBetween(c) ==
  /\ Negotiated(Other(c))
  /\ DataChannelOpen(c)

\* The peer's data channel is announced at c.
DataChannelEventBetween(c) ==
  /\ Negotiated(Other(c))
  /\ dataChannel[Other(c)].pc = peerConnection[Other(c)].id
  /\ DataChannelEvent(c)

\* The user of c sends a chat message: handleSendMessage of the page.
SendMessage(c) ==
  /\ phase[c] = "joined"
  /\ connectionStatus[c] = "open"
  /\ msgSeq["A"] + msgSeq["B"] < MaxMsgs
  /\ \E message \in Contents :
       Commit(sendMessage([World EXCEPT !.msgSeq[c] = @ + 1], c, Other(c), message))

\* webRTCService.sendMessage is called, whatever the state of the page and
\* of the data channel.
SendMessageCall(c) ==
  /\ msgSeq[c] < MaxMsgs
  /\ \E message \in Contents :
       Commit(sendMessage([World EXCEPT !.msgSeq[c] = @ + 1], c, Other(c), message))

\* The data channel of c delivers the next message in flight.
ReceiveMessage(c) ==
  /\ chanq[c] # << >>
  /\ dataChannel[c].state = "open"
  /\ Commit(dataChannel_onmessage([World EXCEPT !.chanq[c] = Tail(@)], c,
                                  Head(chanq[c])))

\* The chat page unmounts: the cleanup of the effect.
Unmount(c) ==
  /\ phase[c] \in {"connecting", "joined"}
  /\ LET W1 == [World EXCEPT !.fallbackTimer[c] =
                                IF phase[c] = "joined" THEN FALSE ELSE @,
                             !.phase[c] = "unmounted"]
     IN Commit(IF ~effectEnded[c] THEN cleanup(W1, c) ELSE W1)

\* The user presses "End Session".
EndSessionClick(c) ==
  /\ phase[c] \in {"connecting", "joined"}
  /\ ~sessionEnded[c]
  /\ ~isRoomFull[c]
  /\ Commit(endSession(World, c))

\* Time passes; its grain matters between the joins of the two clients.
Tick ==
  /\ now < MaxTime
  /\ \E c \in Clients : phase[c] = "connecting"
  /\ Commit([World EXCEPT !.now = @ + 1])

\* The peer, taken as the environment of one client: any envelope of the
\* given types that a peer can publish reaches c's subscription, in any order.
PeerEnvelopeOf(c, types, max) ==
  /\ subscribed[c]
  /\ connected[c] \/ late[c] < MaxLate
  /\ injected < max
  /\ \E type \in types, rv \in RandomValues, fault \in BOOLEAN :
       /\ fault => faults < MaxFaults /\ type = "ice-candidate"
       /\ rv # 3 => type = "initiator-selection"
       /\ LET content == IF type = "initiator-selection" THEN << rv, now >>
                         ELSE << injected + 1, 0 >>
          IN Commit(Forward([World EXCEPT !.injected = @ + 1], << c >>,
                            Envelope(type, "B", content), fault))

\* A peer that negotiates.
PeerEnvelope(c) ==
  PeerEnvelopeOf(c, {"offer", "answer", "ice-candidate", "initiator-selection",
                     "keep-alive"}, MaxPeerMsgs)

\* A peer that answers the offer the client is waiting on, once the relay
\* has forwarded it.
PeerAnswer(c) ==
  /\ peerConnection[c].signalingState = "have-local-offer"
  /\ \A i \in 1..Len(outq[c]) : outq[c][i].type # "offer"
  /\ PeerEnvelopeOf(c, {"answer"}, MaxSignals)

\* A keep-alive of the peer that arrives while the client has no transport
\* instance (the handler ignores it on an existing one).
PeerKeepAlive(c) ==
  /\ peerConnection[c].id = 0
  /\ PeerEnvelopeOf(c, {"keep-alive"}, MaxSignals)

\* A peer that publishes session descriptions and candidates.
PeerNegotiation(c) ==
  PeerEnvelopeOf(c, {"offer", "answer", "ice-candidate"}, MaxNegMsgs)

\* A peer that negotiates and may end the session.
PeerSignal(c) ==
  PeerEnvelopeOf(c, {"offer", "answer", "initiator-selection", "keep-alive",
                     "end-session"}, MaxEndMsgs)

\* A page of tab c calls updateRoomParticipants; lastCall records the call.
UpdateRoomParticipantsOf(c, rooms, users) ==
  \E roomId \in rooms, userId \in users, joining \in BOOLEAN :
    LET before == participants[Browser(World, c)][roomId]
        W1 == updateRoomParticipants(World, c, roomId, userId, joining)
    IN Commit([W1 EXCEPT !.lastCall =
                 [roomId |-> roomId, userId |-> userId, joining |-> joining,
                  member |-> Includes(before.users, userId), before |-> before,
                  after |-> W1.participants[Browser(World, c)][roomId],
                  ret |-> ReturnedCount(W1, c, roomId),
                  op |-> "update", at |-> now]])

UpdateRoomParticipantsCall(c) == UpdateRoomParticipantsOf(c, Rooms, Clients)

\* A page of tab c calls getRoomParticipantsCount; lastCall records the call.
GetRoomParticipantsCountCall(c) ==
  \E roomId \in {Room} :
    LET before == participants[Browser(World, c)][roomId]
        r == getRoomParticipantsCount(World, c, roomId)
    IN Commit([r.w EXCEPT !.lastCall =
                 [roomId |-> roomId, userId |-> c, joining |-> FALSE,
                  member |-> Includes(before.users, c), before |-> before,
                  after |-> r.w.participants[Browser(World, c)][roomId],
                  ret |-> r.ret, op |-> "count", at |-> now]])

\* Time passes for the membership tracker.
Elapse ==
  \E t \in Instants :
    /\ t > now
    /\ Commit([World EXCEPT !.now = t])

\* A page of tab c calls clearRoomParticipants.
ClearRoomParticipantsCall(c) ==
  \E roomId \in Rooms :
    /\ participants[Browser(World, c)][roomId].present
    /\ Commit(clearRoomParticipants(World, c, roomId))

\* The tabs are opened one after the other.
MountNext(c) ==
  /\ c = "B" => phase["A"] # "idle"
  /\ c = "C" => phase["B"] # "idle"
  /\ Mount(c)

\* ---------------------------------------------------------- specifications
\* Two peers, each in its own browser, join the room, elect and negotiate.
Init == InitWith(FALSE, Peers, 0)

Next ==
  \/ \E c \in Peers : Mount(c)
  \/ \E c \in Peers : OnConnect(c)
  \/ \E c \in Peers : Relay(c)
  \/ \E c \in Peers : TaskDone(c)
  \/ \E c \in Peers : FallbackTimer(c)
  \/ Tick

Spec == Init /\ [][Next]_vars

\* One client after a reload (messages persisted) against an arbitrary peer;
\* either side may end the session, and the page reacts to the end.
InitEnd == InitWith(FALSE, {"A"}, MaxStored)


NextEnd ==
  \/ Mount("A")
  \/ OnConnect("A")
  \/ Relay("A")
  \/ TaskDone("A")
  \/ FallbackTimer("A")
  \/ EndSessionClick("A")
  \/ EffectRerun("A")
  \/ LinkClosed("A")
  \/ PeerSignal("A")

SpecEnd == InitEnd /\ [][NextEnd]_vars

\* Two peers that join one after the other, negotiate, open the data channel
\* and chat; the first has messages persisted by an earlier page load.
InitChat == InitWith(FALSE, {"A"}, MaxStored)

NextChat ==
  \/ \E c \in Peers : MountNext(c)
  \/ \E c \in Peers : OnConnect(c)
  \/ \E c \in Peers : Relay(c)
  \/ \E c \in Peers : TaskDone(c)
  \/ \E c \in Peers : FallbackTimer(c)
  \/ \E c \in Peers : DataChannelEventBetween(c)
  \/ \E c \in Peers : DataChannelOpenBetween(c)
  \/ \E c \in Peers : SendMessage(c)
  \/ \E c \in Peers : ReceiveMessage(c)

SpecChat == InitChat /\ [][NextChat]_vars

\* The same two peers as tabs of one browser: one localStorage.
InitChatTabs == InitWith(TRUE, Peers, 0)

SpecChatTabs == InitChatTabs /\ [][NextChat]_vars

\* A joins alone and offers after its fallback; B joins once the relay has
\* forwarded that offer.  Deliveries, timers and primitive operations are
\* fair.
MountLate(c) ==
  /\ c = "B" => "offer" \in sent["A"] /\ outq["A"] = << >>
  /\ Mount(c)

NextLate ==
  \/ \E c \in Peers : MountLate(c)
  \/ \E c \in Peers : OnConnect(c)
  \/ \E c \in Peers : Relay(c)
  \/ \E c \in Peers : TaskDone(c)
  \/ \E c \in Peers : FallbackTimer(c)

FairLate == WF_vars(NextLate)

SpecLate == Init /\ [][NextLate]_vars /\ FairLate

\* One client whose transport is lost and re-established, against a peer
\* that answers its offers and sends keep-alives.
InitReconnect == InitWith(FALSE, {"A"}, 0)

NextReconnect ==
  \/ Mount("A")
  \/ OnConnect("A")
  \/ Relay("A")
  \/ TaskDone("A")
  \/ FallbackTimer("A")
  \/ PeerAnswer("A")
  \/ PeerKeepAlive("A")
  \/ IceLoss("A")
  \/ ReconnectTimer("A")
  \/ DataChannelOpen("A")
  \/ DataChannelClose("A")

SpecReconnect == InitReconnect /\ [][NextReconnect]_vars

\* One client whose page unmounts or whose user ends the session, with
\* timers pending.
NextTeardown ==
  \/ Mount("A")
  \/ OnConnect("A")
  \/ Relay("A")
  \/ TaskDone("A")
  \/ FallbackTimer("A")
  \/ PeerAnswer("A")
  \/ IceLossUpTo("A", MaxTeardownLoss)
  \/ ReconnectTimer("A")
  \/ DataChannelOpen("A")
  \/ DataChannelCloseUpTo("A", MaxTeardownLoss)
  \/ Unmount("A")
  \/ EndSessionClick("A")
  \/ LinkClosed("A")

SpecTeardown == InitReconnect /\ [][NextTeardown]_vars

\* One client against an arbitrary peer: candidate buffering.
InitIce == InitWith(FALSE, {"A"}, 0)

NextIce ==
  \/ Mount("A")
  \/ OnConnect("A")
  \/ Relay("A")
  \/ TaskDone("A")
  \/ FallbackTimer("A")
  \/ IceCandidateEvent("A")
  \/ PeerEnvelope("A")

SpecIce == InitIce /\ [][NextIce]_vars

\* One client against a peer that publishes offers, answers and candidates
\* at any time, with one loss of the transport.
NextSignals ==
  \/ Mount("A")
  \/ OnConnect("A")
  \/ Relay("A")
  \/ TaskDone("A")
  \/ FallbackTimer("A")
  \/ PeerNegotiation("A")
  \/ IceLossUpTo("A", MaxNegLoss)
  \/ ReconnectTimer("A")

SpecSignals == InitIce /\ [][NextSignals]_vars

\* Two clients join while the relay is down (no socket) or refuses the STOMP
\* session (ERROR frame).  The failure of a pending attempt does arrive.
InitNoRelay ==
  \E link \in {"unreachable", "rejecting"} : InitRelay(FALSE, {}, 0, link)

NextNoRelay ==
  \/ \E c \in Peers : Mount(c)
  \/ \E c \in Peers : StompError(c)
  \/ \E c \in Peers : WebSocketError(c)
  \/ Tick

FairNoRelay ==
  \A c \in Peers : WF_vars(StompError(c)) /\ WF_vars(WebSocketError(c))

SpecNoRelay == InitNoRelay /\ [][NextNoRelay]_vars /\ FairNoRelay

\* One client whose transport is negotiated, lost and renewed while
\* sendMessage is called at any moment.
NextSend ==
  \/ Mount("A")
  \/ OnConnect("A")
  \/ Relay("A")
  \/ TaskDone("A")
  \/ FallbackTimer("A")
  \/ PeerAnswer("A")
  \/ IceLossUpTo("A", MaxNegLoss)
  \/ ReconnectTimer("A")
  \/ DataChannelOpen("A")
  \/ DataChannelCloseUpTo("A", MaxNegLoss)
  \/ SendMessageCall("A")

SpecSend == InitReconnect /\ [][NextSend]_vars

\* Three tabs of one browser (one localStorage) join the same room, one after
\* the other; the window ends before a transport operation settles.
InitTabs == InitWith(TRUE, Clients, 0)

NextTabs ==
  \/ \E c \in Clients : MountNext(c)
  \/ \E c \in Clients : OnConnect(c)
  \/ \E c \in Clients : Relay(c)
  \/ \E c \in Clients : FallbackTimer(c)

SpecTabs == InitTabs /\ [][NextTabs]_vars

\* The membership tracker alone, under arbitrary calls of one browser.
InitStorage == InitWith(FALSE, {}, 0)

NextStorage ==
  \/ UpdateRoomParticipantsCall("A")
  \/ ClearRoomParticipantsCall("A")

SpecStorage == InitStorage /\ [][NextStorage]_vars

\* The membership tracker with the clock: joins, leaves and count queries an
\* hour or a millisecond apart.
NextStale ==
  \/ UpdateRoomParticipantsOf("A", {Room}, Peers)
  \/ GetRoomParticipantsCountCall("A")
  \/ Elapse

SpecStale == InitStorage /\ [][NextStale]_vars

\* ------------------------------------------------------------------ claims
TokenOf(c) == << localToken[c].randomValue, localToken[c].timestamp >>

\* C1: once a participant has processed a signal of its peer (token, offer,
\* answer or candidate), the firing of its fallback timer does not make it
\* initiator, so the two participants never both hold the initiator role.
C1_FallbackCancelled ==
  [][\A c \in Peers :
       (heardPeer[c] /\ ~isInitiator[c] /\ fallbackTimer[c] /\ ~fallbackTimer'[c])
         => ~isInitiator'[c]]_vars

\* C2: when both participants have processed each other's election token and
\* the two tokens differ, exactly one of them has elected itself initiator.
C2_ExactlyOneInitiator ==
  (/\ electionResult["A"] # "none" /\ electionResult["B"] # "none"
   /\ TokenOf("A") # TokenOf("B"))
    => ((electionResult["A"] = "initiator") # (electionResult["B"] = "initiator"))

\* C3: with equal random values and different timestamps, the participant
\* whose own published token carries the earlier timestamp elects itself
\* initiator and the other elects itself receiver.
C3_EarlierTimestampWins ==
  \A c \in Peers : \A d \in Peers \ {c} :
    (/\ electionResult[c] # "none" /\ localToken[c].set /\ localToken[d].set
     /\ localToken[c].randomValue = localToken[d].randomValue
     /\ localToken[c].timestamp # localToken[d].timestamp)
      => (electionResult[c] = "initiator"
            <=> localToken[c].timestamp < localToken[d].timestamp)

\* C4: after the tokens are exchanged, the participant with the higher random
\* value is the initiator and the other is the receiver, and the receiver
\* keeps the receiver role and publishes no offer from then on.
C4_ReceiverStaysReceiver ==
  [][\A hi \in Peers : \A lo \in Peers \ {hi} :
       (/\ electionResult[hi] # "none" /\ electionResult[lo] # "none"
        /\ randomValue[hi] > randomValue[lo])
         => /\ electionResult[hi] = "initiator"
            /\ electionResult[lo] = "receiver"
            /\ (~isInitiator[lo] => ~isInitiator'[lo])
            /\ ("offer" \notin sent[lo] => "offer" \notin sent'[lo])]_vars

\* C5: a candidate held in the buffer is never lost: it leaves the buffer only
\* by being handed to the transport, which accepts it because the remote
\* description is set.
C5_NoCandidateLost ==
  [][\A c \in Clients : \A i \in 1..Len(pendingIceCandidates[c]) :
       LET cand == pendingIceCandidates[c][i] IN
       \/ \E k \in 1..Len(pendingIceCandidates'[c]) : pendingIceCandidates'[c][k] = cand
       \/ \E k \in (Len(iceLog[c]) + 1)..Len(iceLog'[c]) :
            iceLog'[c][k].cand = cand /\ iceLog'[c][k].ok]_vars

\* C6: while the remote-description flag is set the candidate buffer is empty:
\* a candidate that arrives is applied at once and never appended.
C6_BufferEmptyWhileSet ==
  \A c \in Clients : remoteDescriptionSet[c] => pendingIceCandidates[c] = << >>

\* C7: updateRoomParticipants(roomId, userId, join) is idempotent: a second
\* call with the same arguments leaves the count and the member list as the
\* first call left them, and returns the same count.
C7_JoinIdempotent ==
  lastCall.joining =>
    LET again == UpdatedParticipants(lastCall.after, lastCall.userId, TRUE, now) IN
    /\ again.count = lastCall.after.count
    /\ again.users = lastCall.after.users
    /\ lastCall.member => /\ lastCall.after.count = lastCall.before.count
                          /\ lastCall.after.users = lastCall.before.users
                          /\ lastCall.ret = lastCall.before.count

\* C7 witness: a join of a user who was already a member of a room of two.
C7_Witness ==
  /\ lastCall.joining /\ lastCall.member
  /\ lastCall.ret = 2 /\ Len(lastCall.after.users) = 2

\* C8: a participant whose join returned a count above 2 publishes no token,
\* offer, answer or candidate, arms no fallback timer and is never initiator.
C8_ThirdStaysOut ==
  \A c \in Clients :
    participantCount[c] > 2 =>
      /\ sent[c] \cap {"initiator-selection", "offer", "answer", "ice-candidate"} = {}
      /\ ~fallbackTimer[c]
      /\ ~isInitiator[c]

\* C9: a join that returns a count above 2 publishes a RoomFull envelope and
\* its connect still resolves; the relay delivers that envelope to the handler
\* of every current subscriber, the publisher included.
C9_RoomFullBroadcast ==
  [][\A c \in Clients :
       /\ (connectWait[c] # {} /\ connected'[c] /\ participantCount'[c] > 2)
            => /\ Len(outq'[c]) > 0
               /\ \E k \in 1..Len(outq'[c]) :
                    outq'[c][k].type = "room-full" /\ outq'[c][k].senderId = c
               /\ phase'[c] = "joined"
       /\ (/\ outq[c] # << >> /\ Head(outq[c]).type = "room-full"
           /\ outq'[c] = Tail(outq[c]))
            => \A d \in Clients :
                 (subscribed[d] /\ connected[d] /\ messageCallback[d] # "none")
                   => isRoomFull'[d] /\ "roomFull" \in notified'[d]]_vars

\* C9 witness: the over-capacity participant has joined and its own RoomFull
\* envelope has reached its handler and that of another subscriber.
C9_Witness ==
  \E c \in Clients : \E d \in Clients \ {c} :
    /\ participantCount[c] > 2 /\ phase[c] = "joined"
    /\ "room-full" \in sent[c]
    /\ isRoomFull[c] /\ isRoomFull[d]
    /\ participantCount[d] <= 2 /\ phase[d] = "joined"

\* C10: when the relay delivers an EndSession envelope of another sender to a
\* participant whose session is active, that participant clears the persisted
\* messages and the membership of the room, removes the session record, closes
\* the transport and the relay connection, and reports onSessionEnded(true).
C10_EndedByPeer ==
  [][\A d \in Clients :
       (endHandled'[d] = endHandled[d] + 1 /\ isSessionActive[d])
         => LET b == IF sharedStore THEN "A" ELSE d IN
            /\ messages'[b][Room] = << >>
            /\ participants'[b][Room].users = << >>
            /\ participants'[b][Room].count = 0
            /\ session'[b] = NoSession
            /\ peerConnection'[d] = NoPc
            /\ ~connected'[d]
            /\ ~isSessionActive'[d]
            /\ sessionEnded'[d] /\ endedByPeer'[d]
            /\ "endedByPeer" \in notified'[d]]_vars

\* C10 witness: a participant that had persisted messages and a transport
\* instance has been ended by its peer, and by nothing else.
C10_Witness ==
  \E d \in Clients :
    /\ endHandled[d] = 1 /\ endCalls[d] = 0
    /\ "endedByPeer" \in notified[d] /\ endedByPeer[d]
    /\ pcSeq[d] > 0 /\ peerConnection[d] = NoPc
    /\ messages[d][Room] = << >> /\ session[d] = NoSession
    /\ ~connected[d] /\ ~isSessionActive[d]

\* C11: an EndSession envelope that reaches the handler of a participant
\* whose session is already inactive changes nothing: the persisted state,
\* the in-memory state and the ended-by tag stay as they were.
C11_InactiveNoOp ==
  [][\A d \in Clients :
       (endHandled'[d] = endHandled[d] + 1 /\ ~isSessionActive[d])
         => /\ endedByPeer'[d] = endedByPeer[d]
            /\ notified'[d] = notified[d]
            /\ sessionEnded'[d] = sessionEnded[d]
            /\ messages' = messages /\ session' = session
            /\ participants' = participants
            /\ peerConnection'[d] = peerConnection[d]
            /\ storedMessages'[d] = storedMessages[d]]_vars

\* C12: once the session of a participant has ended, the client persists no
\* new session record, starts no relay connection and creates no transport
\* instance (the model has no user-initiated join after the end).
C12_EndedIsTerminal ==
  [][\A c \in Clients :
       sessionEnded[c]
         => LET b == IF sharedStore THEN "A" ELSE c IN
            /\ session[b] = NoSession => session'[b] = NoSession
            /\ connectWait[c] = {} => connectWait'[c] = {}
            /\ ~connected[c] => ~connected'[c]
            /\ pcSeq'[c] = pcSeq[c]]_vars

\* C18: a locally initiated endSession() publishes an EndSession envelope if
\* the relay was connected, removes the persisted messages and the session
\* record, leaves the membership count at 0, closes the data channel, the
\* transport instance and the relay connection, and reports
\* onSessionEnded(false).
C18_LocalEnd ==
  [][\A c \in Clients :
       endCalls'[c] = endCalls[c] + 1
         => LET b == IF sharedStore THEN "A" ELSE c IN
            /\ isConnected(World, c)
                 => /\ outq'[c] # << >>
                    /\ outq'[c][Len(outq'[c])].type = "end-session"
                    /\ outq'[c][Len(outq'[c])].senderId = c
            /\ messages'[b][Room] = << >>
            /\ participants'[b][Room].count = 0
            /\ session'[b] = NoSession
            /\ dataChannel'[c] = NoChannel
            /\ peerConnection'[c] = NoPc
            /\ ~connected'[c]
            /\ ~isSessionActive'[c]
            /\ sessionEnded'[c] /\ ~endedByPeer'[c]
            /\ "endedBySelf" \in notified'[c]]_vars

\* C18 witness: a connected participant with persisted messages and a
\* transport instance has ended the session itself.
C18_Witness ==
  \E c \in Clients :
    /\ endCalls[c] = 1 /\ endHandled[c] = 0
    /\ "end-session" \in sent[c]
    /\ pcSeq[c] > 0 /\ peerConnection[c] = NoPc /\ dataChannel[c] = NoChannel
    /\ messages[c][Room] = << >> /\ session[c] = NoSession
    /\ ~connected[c] /\ "endedBySelf" \in notified[c] /\ ~endedByPeer[c]

\* C13: a client starts at most maxReconnectAttempts reconnection attempts
\* counted from the start of the session or from the last successful open of
\* the data channel.
C13_AtMostFiveAttempts ==
  \A c \in Clients : attemptsStarted[c] <= maxReconnectAttempts

\* C14: once the exhaustion of the attempts has been reported, no later
\* transport event starts another reconnection attempt.
C14_ClosedIsTerminal ==
  [][\A c \in Clients :
       exhausted[c] => Len(reconnectTimers'[c]) <= Len(reconnectTimers[c])]_vars

\* C15: when the data channel opens, the attempt counter is reset to 0 and
\* the reconnecting flag is cleared.
C15_OpenResets ==
  [][\A c \in Clients :
       (dataChannel[c].state = "connecting" /\ dataChannel'[c].state = "open")
         => /\ reconnectAttempts'[c] = 0
            /\ ~isReconnecting'[c]
            /\ connectionStatus'[c] = "open"]_vars

\* C15 witness: the data channel has opened during a reconnection, at an
\* attempt between 1 and the maximum, and the counter is 0 again.
C15_Witness ==
  \E c \in Clients :
    /\ openedAtAttempt[c] > 0 /\ openedAtAttempt[c] <= maxReconnectAttempts
    /\ dataChannel[c].state = "open"
    /\ reconnectAttempts[c] = 0 /\ ~isReconnecting[c]

\* C20: the transport instance a reconnection timer creates has the role the
\* client had when the transport was lost.
C20_RolePreserved ==
  [][\A c \in Clients :
       (/\ reconnectTimers[c] # << >>
        /\ reconnectTimers'[c] = Tail(reconnectTimers[c])
        /\ pcSeq'[c] = pcSeq[c] + 1)
         => isInitiator'[c] = Head(reconnectTimers[c]).role]_vars

\* C19: after endSession() or the cleanup() of an unmounting page, with no
\* later initialize, no timer and no close event has an effect: no transport
\* instance is created, no reconnection attempt starts, no offer is published
\* and the relay is not connected again.
C19_TeardownCancelsTimers ==
  [][\A c \in Clients :
       (phase[c] = "unmounted" \/ endCalls[c] > 0)
         => /\ pcSeq'[c] = pcSeq[c]
            /\ Len(reconnectTimers'[c]) <= Len(reconnectTimers[c])
            /\ connectWait'[c] \subseteq connectWait[c]
            /\ ~connected[c] => ~connected'[c]
            /\ \A i \in 1..Len(outq'[c]) :
                 outq'[c][i].type = "offer"
                   => \E j \in 1..Len(outq[c]) : outq[c][j] = outq'[c][i]]_vars

\* C16: a message sent while the data channel is open is reported to the
\* sender with isSelf = TRUE and, when the channel delivers it, to the
\* receiver with isSelf = FALSE, with the content and the senderId of the
\* sender, and each side appends it to its own persisted list of the room.
C16_MessageRoundTrip ==
  [][\A c \in Peers :
       /\ (msgSeq'[c] = msgSeq[c] + 1 /\ dataChannel[c].state = "open")
            => LET m == observed'[c][Len(observed'[c])]
                   q == chanq'[Other(c)]
               IN /\ Len(observed'[c]) = Len(observed[c]) + 1
                  /\ m.isSelf /\ m.senderId = c
                  /\ messages'[Browser(World, c)][Room]
                       = Append(messages[Browser(World, c)][Room], m)
                  /\ Len(q) = Len(chanq[Other(c)]) + 1
                  /\ q[Len(q)].content = m.data
                  /\ q[Len(q)].senderId = m.senderId
       /\ (/\ chanq[c] # << >> /\ chanq'[c] = Tail(chanq[c])
           /\ dataChannel[c].state = "open" /\ dataChannel'[c].state = "open")
            => LET m == observed'[c][Len(observed'[c])]
               IN /\ Len(observed'[c]) = Len(observed[c]) + 1
                  /\ ~m.isSelf
                  /\ m.data = Head(chanq[c]).content
                  /\ m.senderId = Head(chanq[c]).senderId
                  /\ m.senderId = Other(c)
                  /\ messages'[Browser(World, c)][Room]
                       = Append(messages[Browser(World, c)][Room], m)]_vars

\* Both participants hold a transport instance with both descriptions
\* applied, in signaling state stable.
BothStable == \A c \in Peers : Negotiated(c)

C21_StaleAnswerIgnored ==
  [][\A c \in Clients :
       (handled'[c].answer = handled[c].answer + 1
          /\ peerConnection[c].signalingState # "have-local-offer")
         => /\ peerConnection'[c] = peerConnection[c]
            /\ pcSeq'[c] = pcSeq[c]
            /\ isInitiator'[c] = isInitiator[c]
            /\ remoteDescriptionSet'[c] = remoteDescriptionSet[c]
            /\ pendingIceCandidates'[c] = pendingIceCandidates[c]
            /\ tasks'[c] = tasks[c]]_vars
\* C22: no envelope whose senderId is the local participant has been passed
\* to the local signal handler, whatever its kind.
C22_NoSelfDelivery == \A c \in Clients : ~selfDelivered[c]
\* C23: every failed attempt to connect to the relay is eventually followed
\* by the caller observing channel status 'closed'.
C23_FailureSurfaces ==
  \A c \in Peers : (connectErrors[c] > 0) ~> (connectionStatus[c] = "closed")
\* C24: the step in which the transport primitive rejects createOffer,
\* createAnswer, setLocalDescription or setRemoteDescription changes the
\* connection status the caller observes.
C24_RejectionSurfaces ==
  [][\A c \in Clients :
       (~rejected[c] /\ rejected'[c])
         => connectionStatus'[c] # connectionStatus[c]]_vars
\* Whether the content of an envelope holds a chat text among its fields
\* (fields are compared as printed, numbers and texts alike).
CarriesText(content) ==
  \E k \in 1..Len(content), d \in Contents : ToString(content[k]) = ToString(d)

\* C25: every envelope a client has published to the relay has a kind among
\* offer, answer, ice-candidate, initiator-selection, end-session, room-full
\* and keep-alive, and the content of an envelope on its way to the relay
\* holds no chat text.
C25_OnlySignalsOnRelay ==
  \A c \in Clients :
    /\ sent[c] \subseteq Types
    /\ \A i \in 1..Len(outq[c]) :
         \/ outq[c][i] = SubscribeFrame
         \/ outq[c][i].type \in Types /\ ~CarriesText(outq[c][i].content)

\* C25 witness: a chat message went over the data channel and was received,
\* after its sender published envelopes to the relay.
C25_Witness ==
  \E c \in Peers :
    /\ msgSeq[c] > 0 /\ "offer" \in sent[c] \cup sent[Other(c)]
    /\ \E i \in 1..Len(observed[Other(c)]) :
         /\ ~observed[Other(c)][i].isSelf
         /\ observed[Other(c)][i].data \in Contents
\* C26: the page load that finds persisted messages for the room reports
\* each of them to onMessageReceived once, in the order they were persisted,
\* and when they have been reported the relay is not connected, nothing has
\* been published and no transport instance or operation exists.
C26_StoredReported ==
  [][\A c \in Clients :
       (phase[c] = "idle" /\ phase'[c] = "connecting")
         => /\ observed'[c] = observed[c] \o messages[Browser(World, c)][Room]
            /\ ~connected'[c]
            /\ outq'[c] = outq[c]
            /\ peerConnection'[c] = NoPc /\ tasks'[c] = << >>]_vars

\* C26 witness: the page loaded with MaxStored persisted messages and they
\* are the calls onMessageReceived has seen.
C26_Witness ==
  /\ phase["A"] = "connecting" /\ ~connected["A"]
  /\ Len(observed["A"]) = MaxStored
  /\ observed["A"][1].timestamp < observed["A"][2].timestamp
\* C27: an Offer handled on a transport instance whose signaling state is not
\* stable closes that instance and replaces it by a fresh one with an empty
\* CandidateBuffer and a cleared remote-description flag, on which the offer
\* is being applied; and the fresh instance stays the current one, with its
\* negotiation unfinished, until the Answer for the offer is published.
C27_OfferReset ==
  [][\A c \in Clients :
       /\ (handled'[c].offer = handled[c].offer + 1
             /\ peerConnection[c].id # 0
             /\ peerConnection[c].signalingState # "stable")
            => /\ pcSeq'[c] = pcSeq[c] + 1
               /\ peerConnection'[c] = [NoPc EXCEPT !.id = pcSeq'[c],
                                                    !.signalingState = "stable"]
               /\ unclosed'[c] = unclosed[c]
               /\ \A i \in 1..Len(tasks'[c]) : tasks'[c][i].pc # peerConnection[c].id
               /\ pendingIceCandidates'[c] = << >>
               /\ ~remoteDescriptionSet'[c]
               /\ \E i \in 1..Len(tasks'[c]) :
                    tasks'[c][i] = [op |-> "setRemoteOffer", pc |-> pcSeq'[c]]
               /\ resetPc'[c] = pcSeq'[c]
       /\ resetPc'[c] # 0
            => /\ peerConnection'[c].id = resetPc'[c]
               /\ ~(peerConnection'[c].local /\ peerConnection'[c].remote)]_vars
\* C28: when a reconnection timer expires and the attempt starts, on either
\* path, the CandidateBuffer is empty and the remote-description flag is
\* false.
C28_FreshAttempt ==
  [][\A c \in Clients :
       Len(reconnectTimers'[c]) < Len(reconnectTimers[c])
         => /\ pendingIceCandidates'[c] = << >>
            /\ ~remoteDescriptionSet'[c]]_vars
\* C29: a client never holds more than one transport instance that has been
\* created and not closed.
C29_OneUnclosedInstance == \A c \in Clients : unclosed[c] <= 1

\* C30: no handler suspended on a primitive operation of one transport
\* instance has resumed while another instance was the current one.
C30_ResumeOnSameInstance == \A c \in Clients : ~staleResume[c]
\* C31: while the relay connect of a page load has not succeeded (it is
\* pending or has failed), persistence holds no session record of that
\* client with active = true.
C31_NoSessionBeforeConnect ==
  \A c \in Peers :
    phase[c] \in {"connecting", "failed"}
      => ~(/\ session[Browser(World, c)].present
           /\ session[Browser(World, c)].active
           /\ session[Browser(World, c)].userId = c)
\* Whether the record a call read was last updated more than an hour before
\* the call.
StaleAtCall ==
  /\ lastCall.op # "none" /\ lastCall.before.present
  /\ lastCall.before.lastUpdated < lastCall.at - oneHour

\* C32: a call that reads a participants record last updated more than one
\* hour before discards it: a count query returns 0 and removes the record,
\* and the count a join returns (the one compared with the capacity) counts
\* the joining user alone.
C32_StaleDiscarded ==
  StaleAtCall =>
    /\ lastCall.op = "count" => lastCall.ret = 0 /\ ~lastCall.after.present
    /\ lastCall.op = "update" /\ lastCall.joining
         => lastCall.ret = 1 /\ lastCall.after.users = << lastCall.userId >>
\* C33: every stored participants record has a count equal to the number of
\* distinct ids in its member list and lists no id twice, and a leave of an
\* id that was not a member returned and stored the count it found.
C33_CountMatchesMembers ==
  /\ \A b \in Clients, r \in Rooms :
       LET p == participants[b][r] IN
       /\ p.count = Cardinality({p.users[i] : i \in 1..Len(p.users)})
       /\ \A i, j \in 1..Len(p.users) : p.users[i] = p.users[j] => i = j
  /\ (lastCall.op = "update" /\ ~lastCall.joining /\ ~lastCall.member)
       => /\ lastCall.after.count = lastCall.before.count
          /\ lastCall.ret = lastCall.before.count

\* C33 witness: a leave of an id that is not a member of a room with members.
C33_Witness ==
  /\ lastCall.op = "update" /\ ~lastCall.joining /\ ~lastCall.member
  /\ lastCall.before.count = 2 /\ lastCall.ret = 2
\* C34: whenever remoteDescriptionSet is true, a transport instance exists and
\* a remote description has been applied to that instance.
C34_FlagDescribesInstance ==
  \A c \in Peers :
    remoteDescriptionSet[c] => /\ peerConnection[c].id # 0
                               /\ peerConnection[c].remote
\* C35: the reconnection attempt counter lies between 0 and
\* maxReconnectAttempts inclusive in every reachable state.
C35_CounterInRange ==
  \A c \in Clients : reconnectAttempts[c] \in 0..maxReconnectAttempts

\* C35 witness: the counter stands at the maximum and a further transport loss
\* has been refused another attempt.
C35_Witness ==
  \E c \in Clients : /\ reconnectAttempts[c] = maxReconnectAttempts
                      /\ exhausted[c]
                      /\ reconnectTimers[c] # << >>
\* C36: onRoomFull is invoked only for a participant whose own join returned
\* a count above the capacity of 2.
C36_RoomFullOnlyToJoiner ==
  \A c \in Clients :
    "roomFull" \in notified[c] => participantCount[c] > 2
\* C37: at most one reconnection-delay timer is pending at any time, and a
\* transport-loss event arriving while one is pending neither schedules
\* another nor resets the attempt counter.
C37_OnePendingTimer ==
  [][\A c \in Clients :
       /\ Len(reconnectTimers'[c]) <= 1
       /\ (reconnectTimers[c] # << >> /\ losses' = losses + 1)
            => /\ reconnectTimers'[c] = reconnectTimers[c]
               /\ reconnectAttempts'[c] = reconnectAttempts[c]]_vars
\* C38: after the relay connect, and with it initialize, has failed, the page
\* has published no election token, armed no fallback timer and created no
\* transport instance or offer.
C38_NoNegotiationAfterFailure ==
  \A c \in Peers :
    phase[c] = "failed"
      => /\ sent[c] \cap {"initiator-selection", "offer"} = {}
         /\ ~fallbackTimer[c]
         /\ pcSeq[c] = 0 /\ peerConnection[c].id = 0
         /\ tasks[c] = << >>

\* C38 witness: the relay has refused the session and initializeChat has
\* reported the failure.
C38_Witness ==
  \E c \in Peers : /\ phase[c] = "failed" /\ connectErrors[c] > 0
                    /\ connectionStatus[c] = "closed" /\ isSessionActive[c]
\* C39: a sendMessage call made while the data channel is absent or not open
\* puts nothing on the channel or the relay link, appends nothing to the
\* in-memory or the persisted message list and reports no message.
C39_SendWhileNotOpen ==
  [][\A c \in Peers :
       (msgSeq'[c] = msgSeq[c] + 1 /\ dataChannel[c].state # "open")
         => /\ chanq' = chanq
            /\ outq' = outq
            /\ storedMessages' = storedMessages
            /\ messages' = messages
            /\ observed' = observed]_vars

\* C39 witness: every sendMessage call so far was made while the data channel
\* was not open (it is closed now), and no message was ever sent or reported.
C39_Witness ==
  /\ msgSeq["A"] = MaxMsgs
  /\ dataChannel["A"].state = "closed"
  /\ observed["A"] = << >> /\ storedMessages["A"] = << >>
  /\ chanq["B"] = << >>
\* C40: in a locally initiated endSession() with the relay connected, the
\* EndSession envelope is the frame last written when the relay link is
\* deactivated, and the persisted session, messages and membership record are
\* already removed when onSessionEnded(false) is called.
C40_EndOrder ==
  [][\A c \in Clients :
       (endCalls'[c] = endCalls[c] + 1 /\ isConnected(World, c))
         => /\ endTrace'[c].publishedAtDisconnect
            /\ endTrace'[c].clearedAtNotify
            /\ ~connected'[c]
            /\ "endedBySelf" \in notified'[c]]_vars

\* C40 witness: a connected participant whose persisted messages had been
\* reported has ended the session itself; the envelope was written before the
\* link was deactivated and the storage was clear at the notification.
C40_Witness ==
  \E c \in Clients :
    /\ endCalls[c] = 1 /\ "end-session" \in sent[c]
    /\ observed[c] # << >>
    /\ endTrace[c].publishedAtDisconnect /\ endTrace[c].clearedAtNotify
    /\ ~connected[c] /\ "endedBySelf" \in notified[c]
====
